---- MODULE Spec2Model ----
(***************************************************************************)
(* Phaser.Stage (src/src/core/Stage.js): the root of the display list.     *)
(* Three independent parts of the Stage are modelled, each with its own    *)
(* specifications over the shared state:                                   *)
(*   Spec       the display list: Stage.add and the per-frame traversals   *)
(*              preUpdate / update with the children's callbacks;          *)
(*   FrameSpec  the whole frame with postUpdate, updateTransform and the   *)
(*              camera;                                                    *)
(*   WideSpec   the frame with callbacks that remove and reparent any node;*)
(*   VisSpec    checkVisibility / visibilityChange / destroy and the       *)
(*              platform events that reach them;                           *)
(*   ClassifierSpec  visibilityChange alone, with the host's pause state;  *)
(*   ColorSpec  setBackgroundColor, the backgroundColor accessor and       *)
(*              parseConfig.                                               *)
(***************************************************************************)
EXTENDS Integers, Sequences, FiniteSets, TLC

VARIABLES
    children,               \* container -> its ordered child list (this.children)
    parent,                 \* node -> the container it is in (child.parent), or NoParent
    hash,                   \* group -> the nodes in its hash (Phaser.Group#hash)
    phase,                  \* where the host loop is in the frame
    i,                      \* the loop index of the running Stage traversal
    currentRenderOrderID,   \* Stage#currentRenderOrderID
    log,                    \* the callbacks invoked during the running pass, in order
    start,                  \* the child lists when the loop of the running pass began
    lastOp,                 \* the last step taken, with its arguments
    cameraTarget,           \* game.camera.target: a display object, or none
    worldAlpha,             \* Stage#worldAlpha
    disableVisibilityChange,\* Stage#disableVisibilityChange
    hiddenVar,              \* Stage#_hiddenVar
    life,                   \* constructed, booted (checkVisibility ran) or destroyed
    documentFlags,          \* document.hidden and its vendor-prefixed forms
    hasFocus,               \* what document.hasFocus() reports, if it is defined
    cocoon,                 \* device.cocoonJSApp && CocoonJS.App, and what the App offers
    docListeners,           \* the document events _onChange is registered for
    windowOn,               \* window.onblur, onfocus, onpagehide, onpageshow
    clickListener,          \* whether _onClick is registered for the window's click
    cocoonListeners,        \* the CocoonJS.App subscriptions of the Stage
    hostCalls,              \* the Game methods the last step called, in order
    lastEvent,              \* the event the last step delivered
    paused,                 \* whether the host game is paused
    probe,                  \* one earlier visibilityChange call, kept for comparison
    transparent,            \* game.transparent
    bgColor,                \* Stage#_bgColor
    lastColor               \* the last background color call, with its argument

graphVars ==
    <<children, parent, hash, phase, i, currentRenderOrderID, log, start, lastOp,
      cameraTarget, worldAlpha>>

visVars ==
    <<hiddenVar, life, documentFlags, hasFocus, cocoon, docListeners, windowOn,
      clickListener, cocoonListeners, hostCalls, lastEvent, paused, probe>>

colorVars == <<transparent, bgColor, lastColor>>

vars == <<graphVars, disableVisibilityChange, visVars, colorVars>>

(***************************************************************************)
(* The display objects.                                                    *)
(***************************************************************************)
\* How many display objects the game has.
NumNodes == 3

NodeNames == <<"A", "B", "C", "D">>

Nodes == {NodeNames[k] : k \in 1..NumNodes}

StageId == "stage"

NoParent == "none"

Containers == Nodes \cup {StageId}

\* The nodes that carry a physics body (child.body is set).
WithBody == {"A", "B"}

\* Stage.add's index argument left out (index === undefined).
NoIndex == -1

(***************************************************************************)
(* Array helpers (JavaScript indexes count from 0, sequences from 1).      *)
(***************************************************************************)
Contains(s, x) == \E k \in 1..Len(s) : s[k] = x

IndexOf(s, x) == CHOOSE k \in 1..Len(s) : s[k] = x /\ \A j \in 1..(k - 1) : s[j] # x

RemoveAt(s, k) == SubSeq(s, 1, k - 1) \o SubSeq(s, k + 1, Len(s))

\* splice(index, 0, x): an index past the end is taken as the end.
InsertAt(s, index, x) ==
    LET at == IF index > Len(s) THEN Len(s) ELSE index
    IN SubSeq(s, 1, at) \o <<x>> \o SubSeq(s, at + 1, Len(s))

Reverse(s) == [k \in 1..Len(s) |-> s[Len(s) + 1 - k]]

IsPrefix(p, s) == Len(p) <= Len(s) /\ SubSeq(s, 1, Len(p)) = p

Tree == [children |-> children, parent |-> parent, hash |-> hash]

(***************************************************************************)
(* PIXI.DisplayObjectContainer and Phaser.Group, as the Stage uses them.   *)
(***************************************************************************)
\* container.removeChild(child): take the child out of the list, clear its parent.
removeChild(t, c, x) ==
    IF ~Contains(t.children[c], x) THEN t
    ELSE [t EXCEPT !.children[c] = RemoveAt(@, IndexOf(@, x)),
                   !.parent[x] = NoParent]

\* container.addChildAt(child, index): detach from the old parent, then insert.
addChildAt(t, c, x, index) ==
    LET d == IF t.parent[x] # NoParent THEN removeChild(t, t.parent[x], x) ELSE t
    IN [d EXCEPT !.parent[x] = c,
                 !.children[c] = InsertAt(@, index, x)]

\* container.addChild(child): addChildAt the end of the list.
addChild(t, c, x) == addChildAt(t, c, x, Len(t.children[c]))

\* group.removeFromHash(child)
removeFromHash(t, g, x) == [t EXCEPT !.hash[g] = @ \ {x}]

\* child.body && child.parent && child.parent.hash: the Stage has no hash.
InParentHash(t, x) == x \in WithBody /\ t.parent[x] \in Nodes

\* group.add(child): no-op on its own child, else detach, append, and hash a body.
groupAdd(t, g, x) ==
    IF t.parent[x] = g THEN t
    ELSE LET d == IF InParentHash(t, x) THEN removeFromHash(t, t.parent[x], x) ELSE t
             e == addChild(d, g, x)
         IN IF x \in WithBody THEN [e EXCEPT !.hash[g] = @ \cup {x}] ELSE e

\* A display object taken off the display list (its parent's remove).
removeSelf(t, x) ==
    IF t.parent[x] = NoParent THEN t
    ELSE IF t.parent[x] = StageId THEN removeChild(t, StageId, x)
    ELSE removeChild(removeFromHash(t, t.parent[x], x), t.parent[x], x)

\* Whether a is x or an ancestor of x (the walk is bounded by the number of nodes).
RECURSIVE IsAncestorOrSelf(_, _, _, _)
IsAncestorOrSelf(t, a, x, fuel) ==
    IF x = a THEN TRUE
    ELSE IF fuel = 0 \/ x \notin Nodes THEN FALSE
    ELSE IsAncestorOrSelf(t, a, t.parent[x], fuel - 1)

(***************************************************************************)
(* What a display object's own callback does to the display list.          *)
(***************************************************************************)
Stay == [kind |-> "stay", to |-> NoParent]

RemoveMe == [kind |-> "remove", to |-> NoParent]

Under(m) == [kind |-> "under", to |-> m]

Acts == {Stay, RemoveMe} \cup {Under(m) : m \in Nodes}

\* What a callback does to another display object: take y off the display
\* list, or take y as a child of its own (this.add(y)).
RemoveOther(y) == [kind |-> "removeOther", to |-> y]

Adopt(y) == [kind |-> "adopt", to |-> y]

WideActs == Acts \cup {RemoveOther(y) : y \in Nodes} \cup {Adopt(y) : y \in Nodes}

\* The nodes below x in the display list.
Descendants(t, x) ==
    {n \in Nodes \ {x} : IsAncestorOrSelf(t, x, n, Cardinality(Nodes))}

\* One behaviour per node for the duration of the callback chain that starts at
\* x: only x and the nodes below it are called, so only they have a choice.
Scripts(t, x) ==
    LET called == {x} \cup Descendants(t, x)
    IN {sc \in {[n \in Nodes |-> IF n \in called THEN f[n] ELSE Stay] :
                    f \in [called -> Acts]} :
            \A n \in Nodes : sc[n].to # n}

\* Callbacks that leave the display list alone.
StayScripts == {[n \in Nodes |-> Stay]}

\* As Scripts, with callbacks that also act on other nodes.
WideScripts(t, x) ==
    LET called == {x} \cup Descendants(t, x)
    IN {sc \in {[n \in Nodes |-> IF n \in called THEN f[n] ELSE Stay] :
                    f \in [called -> WideActs]} :
            \A n \in Nodes : sc[n].to # n}

\* Moving x under one of its own descendants would make the display list cyclic.
MakesCycle(t, x, act) ==
    \/ act.kind = "under" /\ IsAncestorOrSelf(t, x, act.to, Cardinality(Nodes))
    \/ act.kind = "adopt" /\ IsAncestorOrSelf(t, act.to, x, Cardinality(Nodes))

ApplyAct(t, x, act) ==
    CASE act.kind = "stay" -> t
      [] act.kind = "remove" -> removeSelf(t, x)
      [] act.kind = "under" -> groupAdd(t, act.to, x)
      [] act.kind = "removeOther" -> removeSelf(t, act.to)
      [] act.kind = "adopt" -> groupAdd(t, x, act.to)

(***************************************************************************)
(* The children's callbacks.  A callback chain carries the display list,   *)
(* the call log and the render-order counter:                              *)
(*   [t, log, order, bad]   bad: the chain cannot run to its end (the       *)
(*   scripts ask for a cyclic list, or a loop reaches a missing child).    *)
(***************************************************************************)
Call(fn, owner, n, act, order) ==
    [fn |-> fn, owner |-> owner, node |-> n, act |-> act, order |-> order]

RECURSIVE nodePreUpdate(_, _, _, _)
RECURSIVE groupPreUpdate(_, _, _, _)
RECURSIVE nodeUpdate(_, _, _, _)
RECURSIVE groupUpdate(_, _, _, _)

\* child.preUpdate(): stamp the render order, run the node's own logic, then
\* preUpdate its own children.
nodePreUpdate(s, owner, n, sc) ==
    IF s.bad \/ MakesCycle(s.t, n, sc[n]) THEN [s EXCEPT !.bad = TRUE]
    ELSE groupPreUpdate(
            [s EXCEPT !.log = Append(@, Call("preUpdate", owner, n, sc[n], s.order)),
                      !.order = @ + 1,
                      !.t = ApplyAct(@, n, sc[n])],
            n, 0, sc)

\* A container's preUpdate loop over its own children, from index k.
groupPreUpdate(s, g, k, sc) ==
    IF s.bad \/ ~(k < Len(s.t.children[g])) THEN s
    ELSE LET child == s.t.children[g][k + 1]
             r == nodePreUpdate(s, g, child, sc)
         IN groupPreUpdate(r, g, IF r.t.parent[child] = g THEN k + 1 ELSE k, sc)

\* child.update(): the node's own logic, then update its own children.
nodeUpdate(s, owner, n, sc) ==
    IF s.bad \/ MakesCycle(s.t, n, sc[n]) THEN [s EXCEPT !.bad = TRUE]
    ELSE LET r == [s EXCEPT !.log = Append(@, Call("update", owner, n, sc[n], s.order)),
                            !.t = ApplyAct(@, n, sc[n])]
         IN groupUpdate(r, n, Len(r.t.children[n]), sc)

\* A container's update loop over its own children, in reverse: while (k--).
groupUpdate(s, g, k, sc) ==
    IF s.bad \/ k = 0 THEN s
    ELSE IF k > Len(s.t.children[g]) THEN [s EXCEPT !.bad = TRUE]
    ELSE groupUpdate(nodeUpdate(s, g, s.t.children[g][k], sc), g, k - 1, sc)

Chain == [t |-> Tree, log |-> log, order |-> currentRenderOrderID, bad |-> FALSE]

NoLists == [c \in Containers |-> <<>>]

NoOp ==
    [op |-> "none", node |-> NoParent, index |-> NoIndex, ret |-> NoParent,
     from |-> NoParent, prev |-> 0]

(***************************************************************************)
(* Phaser.Stage.prototype.add                                              *)
(***************************************************************************)
\* stage.add without the test for a child that is already on the Stage.
stageAdd_noEarlyReturn(t, child, index) ==
    LET d == IF InParentHash(t, child)
             THEN removeFromHash(t, t.parent[child], child)
             ELSE t
    IN IF index = NoIndex THEN addChild(d, StageId, child)
       ELSE addChildAt(d, StageId, child, index)

\* The display list after stage.add(child, silent, index).
stageAdd(t, child, index) ==
    IF t.parent[child] = StageId THEN t
    ELSE LET d == IF InParentHash(t, child)
                  THEN removeFromHash(t, t.parent[child], child)
                  ELSE t
         IN IF index = NoIndex THEN addChild(d, StageId, child)
            ELSE addChildAt(d, StageId, child, index)

\* The game adds between the traversals of a frame, never inside one.
add(child, index) ==
    /\ phase \in {"idle", "preDone", "updDone"}
    /\ LET t == stageAdd(Tree, child, index)
       IN /\ children' = t.children
          /\ parent' = t.parent
          /\ hash' = t.hash
    /\ lastOp' = [NoOp EXCEPT !.op = "add", !.node = child, !.index = index, !.ret = child,
                              !.from = parent[child]]
    /\ log' = <<>>
    /\ start' = NoLists
    /\ UNCHANGED <<phase, i, currentRenderOrderID>>
    /\ UNCHANGED <<cameraTarget, worldAlpha, disableVisibilityChange, visVars, colorVars>>

(***************************************************************************)
(* Phaser.Stage.prototype.preUpdate                                        *)
(***************************************************************************)
\* preUpdate that leaves the counter of the previous frame in place.
preUpdateStart_noReset ==
    /\ phase \in {"idle", "updDone", "postDone"}
    /\ phase' = "preUpdate"
    /\ i' = 0
    /\ log' = <<>>
    /\ start' = children
    /\ lastOp' = [NoOp EXCEPT !.op = "preUpdate", !.prev = currentRenderOrderID]
    /\ UNCHANGED <<children, parent, hash, currentRenderOrderID>>
    /\ UNCHANGED <<cameraTarget, worldAlpha, disableVisibilityChange, visVars, colorVars>>

\* this.currentRenderOrderID = 0; var i = 0;
preUpdateStart ==
    /\ phase \in {"idle", "updDone", "postDone"}
    /\ phase' = "preUpdate"
    /\ currentRenderOrderID' = 0
    /\ i' = 0
    /\ log' = <<>>
    /\ start' = children
    /\ lastOp' = [NoOp EXCEPT !.op = "preUpdate", !.prev = currentRenderOrderID]
    /\ UNCHANGED <<children, parent, hash>>
    /\ UNCHANGED <<cameraTarget, worldAlpha, disableVisibilityChange, visVars, colorVars>>

\* The plain for-loop: the index always advances.
preUpdateNextIndex_always(t, child, k) == k + 1

\* The index advances whenever the child still has some parent.
preUpdateNextIndex_anyParent(t, child, k) ==
    IF t.parent[child] # NoParent THEN k + 1 ELSE k

\* if (this === child.parent) { i++; }
preUpdateNextIndex(t, child, k) == IF t.parent[child] = StageId THEN k + 1 ELSE k

\* One turn of while (i < this.children.length): child.preUpdate(), then the
\* index; the callbacks behave as one of the scripts.
preUpdateTurn(scripts) ==
    /\ phase = "preUpdate"
    /\ i < Len(children[StageId])
    /\ \E sc \in scripts :
         LET child == children[StageId][i + 1]
             r == nodePreUpdate(Chain, StageId, child, sc)
         IN /\ ~r.bad
            /\ children' = r.t.children
            /\ parent' = r.t.parent
            /\ hash' = r.t.hash
            /\ log' = r.log
            /\ currentRenderOrderID' = r.order
            /\ i' = preUpdateNextIndex(r.t, child, i)
    /\ lastOp' = [NoOp EXCEPT !.op = "preUpdate.child"]
    /\ UNCHANGED <<phase, start>>
    /\ UNCHANGED <<cameraTarget, worldAlpha, disableVisibilityChange, visVars, colorVars>>

\* A turn in which the children called act on themselves only.
preUpdateVisit == preUpdateTurn(Scripts(Tree, children[StageId][i + 1]))

\* The loop condition fails: preUpdate returns.
preUpdateReturn ==
    /\ phase = "preUpdate"
    /\ ~(i < Len(children[StageId]))
    /\ phase' = "preDone"
    /\ lastOp' = [NoOp EXCEPT !.op = "preUpdate.return"]
    /\ UNCHANGED <<children, parent, hash, i, currentRenderOrderID, log, start>>
    /\ UNCHANGED <<cameraTarget, worldAlpha, disableVisibilityChange, visVars, colorVars>>

preUpdate == preUpdateStart \/ preUpdateVisit \/ preUpdateReturn

(***************************************************************************)
(* Phaser.Stage.prototype.update                                           *)
(***************************************************************************)
\* var i = this.children.length;
updateStart ==
    /\ phase = "preDone"
    /\ phase' = "update"
    /\ i' = Len(children[StageId])
    /\ log' = <<>>
    /\ start' = children
    /\ lastOp' = [NoOp EXCEPT !.op = "update"]
    /\ UNCHANGED <<children, parent, hash, currentRenderOrderID>>
    /\ UNCHANGED <<cameraTarget, worldAlpha, disableVisibilityChange, visVars, colorVars>>

\* A forward loop: the first child not yet visited, counted from the front.
updateChild_forward(list, k) == list[Len(list) + 1 - k]

\* The child that while (i--) { this.children[i].update(); } visits when i is k.
updateChild(list, k) == list[k]

\* One turn of the loop: the test and decrement of i, then the child's update
\* (this.children[i] has to be there: update of undefined throws).
updateTurn(scripts) ==
    /\ phase = "update"
    /\ i > 0
    /\ i <= Len(children[StageId])
    /\ \E sc \in scripts :
         LET r == nodeUpdate(Chain, StageId, updateChild(children[StageId], i), sc)
         IN /\ ~r.bad
            /\ children' = r.t.children
            /\ parent' = r.t.parent
            /\ hash' = r.t.hash
            /\ log' = r.log
    /\ i' = i - 1
    /\ lastOp' = [NoOp EXCEPT !.op = "update.child"]
    /\ UNCHANGED <<phase, currentRenderOrderID, start>>
    /\ UNCHANGED <<cameraTarget, worldAlpha, disableVisibilityChange, visVars, colorVars>>

\* A turn in which the children called act on themselves only.
updateVisit == updateTurn(Scripts(Tree, updateChild(children[StageId], i)))

\* The turn when this.children[i] is undefined: calling its update throws a
\* TypeError, which leaves update and the host's frame.
updateThrow ==
    /\ phase = "update"
    /\ i > 0
    /\ i > Len(children[StageId])
    /\ phase' = "thrown"
    /\ i' = i - 1
    /\ lastOp' = [NoOp EXCEPT !.op = "update.throw"]
    /\ UNCHANGED <<children, parent, hash, currentRenderOrderID, log, start>>
    /\ UNCHANGED <<cameraTarget, worldAlpha, disableVisibilityChange, visVars, colorVars>>

\* i-- yields 0: update returns.
updateReturn ==
    /\ phase = "update"
    /\ i = 0
    /\ phase' = "updDone"
    /\ lastOp' = [NoOp EXCEPT !.op = "update.return"]
    /\ UNCHANGED <<children, parent, hash, i, currentRenderOrderID, log, start>>
    /\ UNCHANGED <<cameraTarget, worldAlpha, disableVisibilityChange, visVars, colorVars>>

update == updateStart \/ updateVisit \/ updateReturn

(***************************************************************************)
(* Phaser.Stage.prototype.updateTransform and postUpdate, and the camera   *)
(***************************************************************************)
RECURSIVE nodePostUpdate(_, _, _, _)
RECURSIVE groupPostUpdate(_, _, _, _)
RECURSIVE nodeUpdateTransform(_, _, _)
RECURSIVE groupUpdateTransform(_, _, _)

\* child.postUpdate(): the node's own logic, then postUpdate of its own children.
nodePostUpdate(s, owner, n, sc) ==
    IF s.bad \/ MakesCycle(s.t, n, sc[n]) THEN [s EXCEPT !.bad = TRUE]
    ELSE groupPostUpdate(
            [s EXCEPT !.log = Append(@, Call("postUpdate", owner, n, sc[n], s.order)),
                      !.t = ApplyAct(@, n, sc[n])],
            n, 0, sc)

\* A container's postUpdate loop over its own children: a plain for-loop.
groupPostUpdate(s, g, k, sc) ==
    IF s.bad \/ ~(k < Len(s.t.children[g])) THEN s
    ELSE groupPostUpdate(nodePostUpdate(s, g, s.t.children[g][k + 1], sc), g, k + 1, sc)

\* child.updateTransform(): its own transform, then its children's.
nodeUpdateTransform(s, owner, n) ==
    groupUpdateTransform(
        [s EXCEPT !.log = Append(@, Call("updateTransform", owner, n, Stay, s.order))],
        n, 0)

\* for (var i = 0; i < this.children.length; i++) { this.children[i].updateTransform(); }
groupUpdateTransform(s, g, k) ==
    IF ~(k < Len(s.t.children[g])) THEN s
    ELSE groupUpdateTransform(nodeUpdateTransform(s, g, s.t.children[g][k + 1]), g, k + 1)

\* A call the Stage makes on the camera.
CameraCall(fn, order) == Call(fn, "game", "camera", Stay, order)

\* The callback chain after stage.updateTransform(): the pass is logged as a
\* call on the Stage itself, followed by the children's.
updateTransform(s) ==
    groupUpdateTransform(
        [s EXCEPT !.log = Append(@, Call("updateTransform", "game", StageId, Stay, s.order))],
        StageId, 0)

\* this.worldAlpha = 1
updateTransformAlpha == 1

\* The camera block with updateTarget called before the transform pass.
cameraTargetFirst_updateTargetEarly(s, target, sc) ==
    IF target = NoParent THEN s
    ELSE LET a == nodePostUpdate(s, "camera", target, sc)
         IN updateTransform([a EXCEPT !.log = Append(@, CameraCall("camera.updateTarget", a.order))])

\* The camera block without its transform pass.
cameraTargetFirst_noTransform(s, target, sc) ==
    IF target = NoParent THEN s
    ELSE LET a == nodePostUpdate(s, "camera", target, sc)
         IN [a EXCEPT !.log = Append(@, CameraCall("camera.updateTarget", a.order))]

\* if (this.game.camera.target) { target.postUpdate(); this.updateTransform();
\* this.game.camera.updateTarget(); }
cameraTargetFirst(s, target, sc) ==
    IF target = NoParent THEN s
    ELSE LET a == nodePostUpdate(s, "camera", target, sc)
             b == updateTransform(a)
         IN [b EXCEPT !.log = Append(@, CameraCall("camera.updateTarget", b.order))]

\* The scripts that matter to the camera block: the target's chain, if any.
TargetScripts ==
    IF cameraTarget = NoParent THEN StayScripts
    ELSE Scripts(Tree, cameraTarget)

\* camera.update(), the camera block, and var i = 0.
postUpdateStart ==
    /\ phase = "updDone"
    /\ phase' = "postUpdate"
    /\ \E sc \in TargetScripts :
         LET first == [Chain EXCEPT
                          !.log = <<CameraCall("camera.update", currentRenderOrderID)>>]
             r == cameraTargetFirst(first, cameraTarget, sc)
         IN /\ ~r.bad
            /\ children' = r.t.children
            /\ parent' = r.t.parent
            /\ hash' = r.t.hash
            /\ log' = r.log
            /\ start' = r.t.children
    /\ worldAlpha' = IF cameraTarget # NoParent THEN updateTransformAlpha ELSE worldAlpha
    /\ i' = 0
    /\ lastOp' = [NoOp EXCEPT !.op = "postUpdate"]
    /\ UNCHANGED <<currentRenderOrderID, cameraTarget>>
    /\ UNCHANGED <<disableVisibilityChange, visVars, colorVars>>

\* for (...; i++): the index always advances.
postUpdateNextIndex(t, child, k) == k + 1

\* One turn of for (var i = 0; i < this.children.length; i++).
postUpdateTurn(scripts) ==
    /\ phase = "postUpdate"
    /\ i < Len(children[StageId])
    /\ \E sc \in scripts :
         LET child == children[StageId][i + 1]
             r == nodePostUpdate(Chain, StageId, child, sc)
         IN /\ ~r.bad
            /\ children' = r.t.children
            /\ parent' = r.t.parent
            /\ hash' = r.t.hash
            /\ log' = r.log
            /\ i' = postUpdateNextIndex(r.t, child, i)
    /\ lastOp' = [NoOp EXCEPT !.op = "postUpdate.child"]
    /\ UNCHANGED <<phase, currentRenderOrderID, start, cameraTarget, worldAlpha>>
    /\ UNCHANGED <<disableVisibilityChange, visVars, colorVars>>

\* The loop condition fails: the closing this.updateTransform(), and return.
postUpdateReturn ==
    /\ phase = "postUpdate"
    /\ ~(i < Len(children[StageId]))
    /\ phase' = "postDone"
    /\ log' = updateTransform(Chain).log
    /\ worldAlpha' = updateTransformAlpha
    /\ lastOp' = [NoOp EXCEPT !.op = "postUpdate.return"]
    /\ UNCHANGED <<children, parent, hash, i, currentRenderOrderID, start, cameraTarget>>
    /\ UNCHANGED <<disableVisibilityChange, visVars, colorVars>>

\* A turn in which the children called act on themselves only.
postUpdateVisit == postUpdateTurn(Scripts(Tree, children[StageId][i + 1]))

postUpdate == postUpdateStart \/ postUpdateVisit \/ postUpdateReturn

\* game.camera.follow(target), or unfollow(): between frames.
follow(target) ==
    /\ phase \in {"idle", "postDone"}
    /\ cameraTarget # target
    /\ cameraTarget' = target
    /\ lastOp' = [NoOp EXCEPT !.op = "follow", !.node = target]
    /\ log' = <<>>
    /\ start' = NoLists
    /\ UNCHANGED <<children, parent, hash, phase, i, currentRenderOrderID, worldAlpha>>
    /\ UNCHANGED <<disableVisibilityChange, visVars, colorVars>>

(***************************************************************************)
(* The platform the Stage listens to.                                      *)
(***************************************************************************)
FlagNames == {"hidden", "webkitHidden", "mozHidden", "msHidden"}

\* A JavaScript value that is undefined, true or false.
Tri == {"undefined", "true", "false"}

Truthy(v) == v = "true"

WindowHandlers == {"onblur", "onfocus", "onpagehide", "onpageshow"}

\* The event type each window handler property receives.
WindowEventType(h) ==
    CASE h = "onblur" -> "blur"
      [] h = "onfocus" -> "focus"
      [] h = "onpagehide" -> "pagehide"
      [] h = "onpageshow" -> "pageshow"

\* What CocoonJS.App may offer: the two signals and the on() method.
CocoonApi == {"onSuspended", "onActivated", "on"}

VisibilityEvents ==
    {"visibilitychange", "webkitvisibilitychange", "mozvisibilitychange",
     "msvisibilitychange"}

EventTypes ==
    {"blur", "pagehide", "click", "focus", "pageshow", "pause", "resume", "keydown"}
        \cup VisibilityEvents

NoEvent == [type |-> "none", via |-> "none", handled |-> FALSE]

\* No visibilityChange call has been kept yet.
NoProbe ==
    [set |-> FALSE, type |-> "none", via |-> "none", flags |-> <<>>, disable |-> FALSE,
     calls |-> <<>>, paused |-> FALSE]

Event(type, via, handled) == [type |-> type, via |-> via, handled |-> handled]

\* document.hidden || document.mozHidden || document.msHidden || document.webkitHidden
AnyHidden ==
    \/ Truthy(documentFlags["hidden"])
    \/ Truthy(documentFlags["mozHidden"])
    \/ Truthy(documentFlags["msHidden"])
    \/ Truthy(documentFlags["webkitHidden"])

(***************************************************************************)
(* Phaser.Stage.prototype.visibilityChange                                 *)
(***************************************************************************)
\* visibilityChange without the disableVisibilityChange test.
visibilityChange_ignoresDisable(type) ==
    IF type \in {"blur", "pagehide"} THEN <<"focusLoss">>
    ELSE IF type \in {"click", "focus", "pageshow"} THEN <<"focusGain">>
    ELSE IF AnyHidden \/ type = "pause" THEN <<"gamePaused">>
    ELSE <<"gameResumed">>

\* visibilityChange that pauses a running host and resumes a paused one only.
visibilityChange_remembersPause(type) ==
    IF type \in {"blur", "pagehide"} THEN <<"focusLoss">>
    ELSE IF type \in {"click", "focus", "pageshow"} THEN <<"focusGain">>
    ELSE IF disableVisibilityChange THEN <<>>
    ELSE IF AnyHidden \/ type = "pause"
         THEN (IF paused THEN <<>> ELSE <<"gamePaused">>)
         ELSE (IF paused THEN <<"gameResumed">> ELSE <<>>)

\* The Game methods visibilityChange(event) calls for an event of this type.
visibilityChange(type) ==
    IF type \in {"blur", "pagehide"} THEN <<"focusLoss">>
    ELSE IF type \in {"click", "focus", "pageshow"} THEN <<"focusGain">>
    ELSE IF disableVisibilityChange THEN <<>>
    ELSE IF AnyHidden \/ type = "pause" THEN <<"gamePaused">>
    ELSE <<"gameResumed">>

\* The host after the calls: gamePaused pauses it, gameResumed resumes it.
hostAfter(calls, was) ==
    IF calls = <<"gamePaused">> THEN TRUE
    ELSE IF calls = <<"gameResumed">> THEN FALSE
    ELSE was

\* A step that delivers one event and changes nothing of the Stage.
Deliver(type, via, handled, calls) ==
    /\ lastEvent' = Event(type, via, handled)
    /\ hostCalls' = calls
    /\ paused' = hostAfter(calls, paused)
    /\ UNCHANGED <<hiddenVar, life, documentFlags, hasFocus, cocoon, docListeners,
                   windowOn, clickListener, cocoonListeners, probe>>
    /\ UNCHANGED <<graphVars, disableVisibilityChange, colorVars>>

\* stage.visibilityChange(event), called directly.
visibilityChangeCall(type) == Deliver(type, "direct", TRUE, visibilityChange(type))

\* this._onChange: the document's visibility event, on the name it is registered for.
onChangeDocument(name) ==
    /\ name \in docListeners
    /\ Deliver(name, "document", TRUE, visibilityChange(name))

\* this._onChange as window.onblur, onfocus, onpagehide or onpageshow.
onChangeWindow(h) ==
    /\ windowOn[h] = "_onChange"
    /\ Deliver(WindowEventType(h), "window", TRUE, visibilityChange(WindowEventType(h)))

\* _onClick without the test of document.hasFocus.
onClick_noFocusTest ==
    /\ clickListener
    /\ Deliver("click", "click", TRUE, visibilityChange("click"))

\* this._onClick: only a click on a document without focus is passed on.
onClick ==
    /\ clickListener
    /\ IF hasFocus # "undefined" /\ ~Truthy(hasFocus)
       THEN Deliver("click", "click", TRUE, visibilityChange("click"))
       ELSE Deliver("click", "click", FALSE, <<>>)

\* this._onChangePause: CocoonJS suspends the application.
onChangePause(l) ==
    /\ l \in cocoonListeners \cap {"onSuspended", "on.suspended"}
    /\ Deliver("pause", "cocoon", TRUE, visibilityChange("pause"))

\* this._onChangeResume: CocoonJS activates the application.
onChangeResume(l) ==
    /\ l \in cocoonListeners \cap {"onActivated", "on.activated"}
    /\ Deliver("resume", "cocoon", TRUE, visibilityChange("resume"))

(***************************************************************************)
(* Phaser.Stage.prototype.checkVisibility (called by boot) and destroy     *)
(***************************************************************************)
\* The detection with the Mozilla prefix tried before the WebKit one.
detectHiddenVar_mozBeforeWebkit ==
    IF documentFlags["hidden"] # "undefined" THEN "visibilitychange"
    ELSE IF documentFlags["mozHidden"] # "undefined" THEN "mozvisibilitychange"
    ELSE IF documentFlags["webkitHidden"] # "undefined" THEN "webkitvisibilitychange"
    ELSE IF documentFlags["msHidden"] # "undefined" THEN "msvisibilitychange"
    ELSE "null"

\* The event name checkVisibility settles on, "null" when there is none.
detectHiddenVar ==
    IF documentFlags["hidden"] # "undefined" THEN "visibilitychange"
    ELSE IF documentFlags["webkitHidden"] # "undefined" THEN "webkitvisibilitychange"
    ELSE IF documentFlags["mozHidden"] # "undefined" THEN "mozvisibilitychange"
    ELSE IF documentFlags["msHidden"] # "undefined" THEN "msvisibilitychange"
    ELSE "null"

\* The CocoonJS.App subscriptions checkVisibility makes.
cocoonSubscriptions ==
    IF ~cocoon.app THEN {}
    ELSE (IF "onSuspended" \in cocoon.api THEN {"onSuspended"} ELSE {})
            \cup (IF "onActivated" \in cocoon.api THEN {"onActivated"} ELSE {})
            \cup (IF "on" \in cocoon.api THEN {"on.activated", "on.suspended"} ELSE {})

checkVisibility ==
    /\ life = "constructed"
    /\ life' = "booted"
    /\ hiddenVar' = detectHiddenVar
    /\ docListeners' = IF detectHiddenVar # "null"
                       THEN docListeners \cup {detectHiddenVar}
                       ELSE docListeners
    /\ windowOn' = [h \in WindowHandlers |-> "_onChange"]
    /\ clickListener' = TRUE
    /\ cocoonListeners' = cocoonListeners \cup cocoonSubscriptions
    /\ lastEvent' = NoEvent
    /\ hostCalls' = <<>>
    /\ UNCHANGED <<documentFlags, hasFocus, cocoon, paused, probe>>
    /\ UNCHANGED <<graphVars, disableVisibilityChange, colorVars>>

destroy ==
    /\ life \in {"constructed", "booted"}
    /\ life' = "destroyed"
    /\ docListeners' = IF hiddenVar # "null" THEN docListeners \ {hiddenVar}
                       ELSE docListeners
    /\ windowOn' = [h \in WindowHandlers |-> "null"]
    /\ clickListener' = FALSE
    /\ lastEvent' = NoEvent
    /\ hostCalls' = <<>>
    /\ UNCHANGED <<hiddenVar, documentFlags, hasFocus, cocoon, cocoonListeners, paused,
                   probe>>
    /\ UNCHANGED <<graphVars, disableVisibilityChange, colorVars>>

(***************************************************************************)
(* The environment: the page is hidden or shown, gains or loses focus, and *)
(* the game sets the public disableVisibilityChange property.              *)
(***************************************************************************)
platformChange ==
    /\ \/ /\ \E f \in FlagNames, v \in {"true", "false"} :
               /\ documentFlags[f] \notin {"undefined", v}
               /\ documentFlags' = [documentFlags EXCEPT ![f] = v]
          /\ UNCHANGED hasFocus
       \/ /\ \E v \in {"true", "false"} :
               /\ hasFocus \notin {"undefined", v}
               /\ hasFocus' = v
          /\ UNCHANGED documentFlags
    /\ lastEvent' = NoEvent
    /\ hostCalls' = <<>>
    /\ UNCHANGED <<hiddenVar, life, cocoon, docListeners, windowOn, clickListener,
                   cocoonListeners, paused, probe>>
    /\ UNCHANGED <<graphVars, disableVisibilityChange, colorVars>>

setDisableVisibilityChange(v) ==
    /\ disableVisibilityChange # v
    /\ disableVisibilityChange' = v
    /\ lastEvent' = NoEvent
    /\ hostCalls' = <<>>
    /\ UNCHANGED <<hiddenVar, life, documentFlags, hasFocus, cocoon, docListeners,
                   windowOn, clickListener, cocoonListeners, paused, probe>>
    /\ UNCHANGED <<graphVars, colorVars>>

\* An observer keeps the visibilityChange call just made, with what the
\* classifier could read, to compare a later call with it.
remember ==
    /\ lastEvent.handled
    /\ ~probe.set
    /\ probe' = [set |-> TRUE, type |-> lastEvent.type, via |-> lastEvent.via,
                 flags |-> documentFlags, disable |-> disableVisibilityChange,
                 calls |-> hostCalls, paused |-> paused]
    /\ UNCHANGED <<hiddenVar, life, documentFlags, hasFocus, cocoon, docListeners,
                   windowOn, clickListener, cocoonListeners, hostCalls, lastEvent, paused>>
    /\ UNCHANGED <<graphVars, disableVisibilityChange, colorVars>>

(***************************************************************************)
(* Colors.  A channel is a fraction n/d, so that r /= 255 is exact.        *)
(***************************************************************************)
Frac(n, d) == [n |-> n, d |-> d]

\* Whether the fraction f is n/d.
FracIs(f, n, d) == f.n * d = n * f.d

\* A color argument: a number, a '#RRGGBB' string given by its six hex digits,
\* or no value at all.
Num(n) == [kind |-> "number", n |-> n, digits |-> <<>>]

Hex(digits) == [kind |-> "hex", n |-> 0, digits |-> digits]

NoColorValue == [kind |-> "undefined", n |-> 0, digits |-> <<>>]

\* 0x000000, 0xFF0000, 0x00FF00, 0x0000FF, 0x123456, 0xFFFFFF, 0x01FF0000 (with
\* an alpha byte), '#ff0000' and '#a1b2c3'.
ColorInputs ==
    {Num(0), Num(16711680), Num(65280), Num(255), Num(1193046), Num(16777215),
     Num(33488896), Hex(<<15, 15, 0, 0, 0, 0>>), Hex(<<10, 1, 11, 2, 12, 3>>)}

\* A 0xRRGGBB integer.
IsRGBInteger(v) == v.kind = "number" /\ v.n >= 0 /\ v.n <= 16777215

\* JavaScript truthiness of a color argument: 0 and undefined are falsy.
TruthyColor(v) == (v.kind = "number" /\ v.n # 0) \/ v.kind = "hex"

\* Phaser.Color.valueToColor(value, out): the 0..255 channels of the value.
valueToColor(value, out) ==
    CASE value.kind = "number" ->
            [out EXCEPT !.r = Frac((value.n \div 65536) % 256, 1),
                        !.g = Frac((value.n \div 256) % 256, 1),
                        !.b = Frac(value.n % 256, 1),
                        !.a = IF value.n > 16777215
                              THEN Frac((value.n \div 16777216) % 256, 255)
                              ELSE Frac(255, 255)]
      [] value.kind = "hex" ->
            [out EXCEPT !.r = Frac(16 * value.digits[1] + value.digits[2], 1),
                        !.g = Frac(16 * value.digits[3] + value.digits[4], 1),
                        !.b = Frac(16 * value.digits[5] + value.digits[6], 1),
                        !.a = Frac(1, 1)]
      [] OTHER -> out

\* Phaser.Color.updateColor(out): the numeric value and the string form, from
\* the channels.
updateColor(out) ==
    [out EXCEPT !.color = out.r.n * 65536 + out.g.n * 256 + out.b.n,
                !.rgba = <<out.r.n, out.g.n, out.b.n>>]

Div255(f) == Frac(f.n, f.d * 255)

(***************************************************************************)
(* Phaser.Stage.prototype.setBackgroundColor, Stage#backgroundColor and    *)
(* parseConfig.  game.transparent and this._bgColor are passed explicitly. *)
(***************************************************************************)
\* setBackgroundColor without the test of game.transparent.
setBackgroundColor_noTransparentTest(trans, out, color) ==
    LET c == updateColor(valueToColor(color, out))
    IN [c EXCEPT !.r = Div255(@), !.g = Div255(@), !.b = Div255(@), !.a = Frac(1, 1)]

\* setBackgroundColor that leaves the green channel in 0..255.
setBackgroundColor_greenNotScaled(trans, out, color) ==
    IF trans THEN out
    ELSE LET c == updateColor(valueToColor(color, out))
         IN [c EXCEPT !.r = Div255(@), !.b = Div255(@), !.a = Frac(1, 1)]

\* setBackgroundColor that keeps the alpha the color value carries.
setBackgroundColor_alphaKept(trans, out, color) ==
    IF trans THEN out
    ELSE LET c == updateColor(valueToColor(color, out))
         IN [c EXCEPT !.r = Div255(@), !.g = Div255(@), !.b = Div255(@)]

\* this._bgColor after setBackgroundColor(color).
setBackgroundColor(trans, out, color) ==
    IF trans THEN out
    ELSE LET c == updateColor(valueToColor(color, out))
         IN [c EXCEPT !.r = Div255(@), !.g = Div255(@), !.b = Div255(@), !.a = Frac(1, 1)]

\* The backgroundColor getter.
backgroundColor == bgColor.color

NoColorOp == [op |-> "none", color |-> NoColorValue]

\* stage.setBackgroundColor(color)
setBackgroundColorCall(color) ==
    /\ bgColor' = setBackgroundColor(transparent, bgColor, color)
    /\ lastColor' = [op |-> "setBackgroundColor", color |-> color]
    /\ UNCHANGED <<transparent, graphVars, disableVisibilityChange, visVars>>

\* stage.backgroundColor = color: the setter hands over to setBackgroundColor.
backgroundColorSet(color) ==
    /\ bgColor' = setBackgroundColor(transparent, bgColor, color)
    /\ lastColor' = [op |-> "backgroundColor=", color |-> color]
    /\ UNCHANGED <<transparent, graphVars, disableVisibilityChange, visVars>>

\* A game configuration, as far as the Stage reads it.
Configs == [disableVisibilityChange : BOOLEAN, backgroundColor : ColorInputs \cup {NoColorValue}]

\* if (config['disableVisibilityChange']) { ... }
configDisable(current, config) ==
    IF config.disableVisibilityChange THEN config.disableVisibilityChange ELSE current

\* if (config['backgroundColor']) { this.setBackgroundColor(...); }
configColor(trans, out, config) ==
    IF TruthyColor(config.backgroundColor)
    THEN setBackgroundColor(trans, out, config.backgroundColor)
    ELSE out

parseConfig(config) ==
    /\ disableVisibilityChange' = configDisable(disableVisibilityChange, config)
    /\ bgColor' = configColor(transparent, bgColor, config)
    /\ lastColor' = [op |-> "parseConfig", color |-> config.backgroundColor]
    /\ UNCHANGED <<transparent, graphVars, visVars>>

\* this._bgColor as the constructor leaves it before it reads the configuration.
newColor(trans) ==
    [r |-> Frac(0, 1), g |-> Frac(0, 1), b |-> Frac(0, 1),
     a |-> IF trans THEN Frac(0, 1) ELSE Frac(1, 1),
     color |-> 0, rgba |-> <<0, 0, 0>>]

(***************************************************************************)
(* The specifications.  Init is the state new Phaser.Stage(game) leaves;   *)
(* each specification varies the part of the game and of the platform that *)
(* its operations read and keeps the rest as a plain browser page gives it.*)
(***************************************************************************)
GraphInit ==
    /\ children = [c \in Containers |-> <<>>]
    /\ parent = [n \in Nodes |-> NoParent]
    /\ hash = [n \in Nodes |-> {}]
    /\ phase = "idle"
    /\ i = 0
    /\ currentRenderOrderID = 0
    /\ log = <<>>
    /\ start = NoLists
    /\ lastOp = NoOp
    /\ cameraTarget = NoParent
    /\ worldAlpha = 1

\* What the constructor and the page leave of the visibility state.
StageVisInit ==
    /\ hiddenVar = "hidden"
    /\ life = "constructed"
    /\ docListeners = {}
    /\ windowOn = [h \in WindowHandlers |-> "null"]
    /\ clickListener = FALSE
    /\ cocoonListeners = {}
    /\ hostCalls = <<>>
    /\ lastEvent = NoEvent
    /\ paused = FALSE
    /\ probe = NoProbe

\* A browser with the unprefixed Page Visibility API, and no CocoonJS.
PlainPlatform ==
    /\ documentFlags = [f \in FlagNames |-> IF f = "hidden" THEN "false" ELSE "undefined"]
    /\ hasFocus = "true"
    /\ cocoon = [app |-> FALSE, api |-> {}]

\* Any platform: each flag undefined, true or false; with or without CocoonJS.
AnyPlatform ==
    /\ documentFlags \in [FlagNames -> Tri]
    /\ hasFocus \in Tri
    /\ cocoon \in {c \in [app : BOOLEAN, api : SUBSET CocoonApi] : ~c.app => c.api = {}}

\* An opaque game without a configuration.
PlainColor ==
    /\ transparent = FALSE
    /\ bgColor = newColor(FALSE)
    /\ lastColor = NoColorOp

Init ==
    /\ GraphInit
    /\ disableVisibilityChange = FALSE
    /\ StageVisInit
    /\ PlainPlatform
    /\ PlainColor

Next ==
    \/ \E child \in Nodes, index \in {NoIndex} \cup (0..Len(children[StageId])) :
          add(child, index)
    \/ preUpdate
    \/ update

Spec == Init /\ [][Next]_vars

\* The whole frame: preUpdate, update and postUpdate in that order, frame after
\* frame, with a camera; the game fills the Stage and points the camera before
\* the first frame, and the children act on themselves, in postUpdate.
FrameNext ==
    \/ \E child \in Nodes, index \in {NoIndex} \cup (0..Len(children[StageId])) :
          phase = "idle" /\ add(child, index)
    \/ \E target \in Nodes \cup {NoParent} : phase = "idle" /\ follow(target)
    \/ phase # "updDone" /\ preUpdateStart
    \/ preUpdateTurn(StayScripts)
    \/ preUpdateReturn
    \/ updateStart
    \/ updateTurn(StayScripts)
    \/ updateReturn
    \/ postUpdate

FrameSpec == Init /\ [][FrameNext]_vars

\* The frame without a camera target, with callbacks that act on any node.
WideNext ==
    \/ \E child \in Nodes, index \in {NoIndex} \cup (0..Len(children[StageId])) :
          phase = "idle" /\ add(child, index)
    \/ phase # "updDone" /\ preUpdateStart
    \/ preUpdateTurn(WideScripts(Tree, children[StageId][i + 1]))
    \/ preUpdateReturn
    \/ updateStart
    \/ updateTurn(WideScripts(Tree, updateChild(children[StageId], i)))
    \/ updateThrow
    \/ updateReturn
    \/ postUpdateStart
    \/ postUpdateTurn(WideScripts(Tree, children[StageId][i + 1]))
    \/ postUpdateReturn

WideSpec == Init /\ [][WideNext]_vars

VisInit ==
    /\ GraphInit
    /\ \E config \in {c \in Configs : c.backgroundColor = NoColorValue} :
          disableVisibilityChange = configDisable(FALSE, config)
    /\ StageVisInit
    /\ AnyPlatform
    /\ PlainColor

VisNext ==
    \/ checkVisibility
    \/ destroy
    \/ \E type \in EventTypes : visibilityChangeCall(type)
    \/ \E name \in VisibilityEvents : onChangeDocument(name)
    \/ \E h \in WindowHandlers : onChangeWindow(h)
    \/ onClick
    \/ \E l \in cocoonListeners : onChangePause(l)
    \/ \E l \in cocoonListeners : onChangeResume(l)
    \/ platformChange
    \/ \E v \in BOOLEAN : setDisableVisibilityChange(v)

VisSpec == VisInit /\ [][VisNext]_vars

\* A browser with the Page Visibility API, unprefixed or with the WebKit prefix.
ApiPlatform ==
    /\ \E api \in {"hidden", "webkitHidden"} :
          documentFlags = [f \in FlagNames |-> IF f = api THEN "false" ELSE "undefined"]
    /\ hasFocus = "true"
    /\ cocoon = [app |-> FALSE, api |-> {}]

\* The classifier on its own: events of every type reach visibilityChange while
\* the page is hidden and shown and the game flips disableVisibilityChange.
ClassifierInit ==
    /\ GraphInit
    /\ disableVisibilityChange = FALSE
    /\ StageVisInit
    /\ ApiPlatform
    /\ PlainColor

ClassifierNext ==
    \/ \E type \in EventTypes : visibilityChangeCall(type)
    \/ remember
    \/ platformChange
    \/ \E v \in BOOLEAN : setDisableVisibilityChange(v)

ClassifierSpec == ClassifierInit /\ [][ClassifierNext]_vars

ColorInit ==
    /\ GraphInit
    /\ StageVisInit
    /\ PlainPlatform
    /\ \E trans \in BOOLEAN, config \in Configs :
          /\ transparent = trans
          /\ disableVisibilityChange = configDisable(FALSE, config)
          /\ bgColor = configColor(trans, newColor(trans), config)
    /\ lastColor = NoColorOp

ColorNext ==
    \/ \E color \in ColorInputs : setBackgroundColorCall(color)
    \/ \E color \in ColorInputs : backgroundColorSet(color)
    \/ \E config \in Configs : parseConfig(config)

ColorSpec == ColorInit /\ [][ColorNext]_vars

(***************************************************************************)
(* Properties of the display list.                                         *)
(***************************************************************************)
\* The calls of the running pass that the Stage's own loop made.
StageCalls == SelectSeq(log, LAMBDA e : e.owner = StageId)

\* The children the Stage's own loop has called, in call order.
StageVisited == [k \in 1..Len(StageCalls) |-> StageCalls[k].node]

\* Every call of the running pass as <<owner, node>>.
CallPairs == [k \in 1..Len(log) |-> <<log[k].owner, log[k].node>>]

\* How many of the Stage's children left the Stage in their own callback.
LeftInOwnCall == Cardinality({k \in 1..Len(StageCalls) : StageCalls[k].act.kind # "stay"})

\* C1: whichever of the Stage's children move themselves to another parent (or
\* off the display list) during their own preUpdate, the Stage's preUpdate loop
\* calls the children that were on the Stage when the pass began in their
\* original order, none skipped and none twice, and has called each exactly
\* once when it returns.
PreUpdateVisitsEachOnce ==
    phase \in {"preUpdate", "preDone"} =>
        /\ IsPrefix(StageVisited, start[StageId])
        /\ phase = "preDone" => StageVisited = start[StageId]

\* C1 witness: a finished pass over three children of which two left the Stage.
PreUpdateVisitsEachOnce_witness ==
    /\ phase = "preDone"
    /\ Len(start[StageId]) = 3
    /\ StageVisited = start[StageId]
    /\ LeftInOwnCall >= 2

\* C2: whichever of the Stage's children remove themselves during their own
\* update, the Stage's update loop calls the children that were on the Stage
\* when the pass began from the last down to the first, each exactly once, and
\* the children still to be visited keep their positions.
UpdateVisitsEachOnceInReverse ==
    phase \in {"update", "updDone"} =>
        LET first == start[StageId]
            n == Len(first)
        IN /\ Len(StageVisited) <= n
           /\ \A k \in 1..Len(StageVisited) : StageVisited[k] = first[n + 1 - k]
           /\ phase = "updDone" => Len(StageVisited) = n
           /\ phase = "update" =>
                /\ i = n - Len(StageVisited)
                /\ i <= Len(children[StageId])
                /\ SubSeq(children[StageId], 1, i) = SubSeq(first, 1, i)

\* C2 witness: a finished pass over three children of which two removed themselves.
UpdateVisitsEachOnceInReverse_witness ==
    /\ phase = "updDone"
    /\ Len(start[StageId]) = 3
    /\ StageVisited = Reverse(start[StageId])
    /\ LeftInOwnCall >= 2

\* Every node is in at most one child list, at most once, and its parent
\* reference names the owner of that list.
InOneList ==
    \A n \in Nodes :
        /\ Cardinality({<<c, k>> \in Containers \X (1..Cardinality(Nodes)) :
                            k <= Len(children[c]) /\ children[c][k] = n}) <= 1
        /\ \A c \in Containers : Contains(children[c], n) <=> parent[n] = c

\* What one stage.add(child, silent, index) step does.
AddStep ==
    lastOp'.op = "add" =>
        LET c == lastOp'.node
            at == IF lastOp'.index = NoIndex THEN Len(children[StageId]) ELSE lastOp'.index
        IN /\ lastOp'.ret = c
           /\ parent[c] = StageId => children' = children /\ parent' = parent
           /\ parent[c] # StageId =>
                /\ children'[StageId] = InsertAt(children[StageId], at, c)
                /\ \A g \in Nodes : children'[g] = SelectSeq(children[g], LAMBDA e : e # c)
                /\ parent' = [parent EXCEPT ![c] = StageId]

\* C4: stage.add of a child already on the Stage returns it and changes neither
\* the membership nor the order of any list; stage.add of any other child takes
\* it out of its old parent's list and puts it at the end of the Stage's list, or
\* at the index given; and in every state every node is in at most one list, at
\* most once, with its parent naming that list's owner.
AddSemantics == []InOneList /\ [][AddStep]_vars

\* C4 witness: a node that was in another node's list has been added to a Stage
\* that had children, at an index.
AddSemantics_witness ==
    /\ lastOp.op = "add"
    /\ lastOp.from \in Nodes
    /\ lastOp.index # NoIndex
    /\ Len(children[StageId]) >= 2
    /\ parent[lastOp.node] = StageId

\* C6: when preUpdate has begun and no child has been called yet the counter is
\* 0, and the first child called in the pass saw it at 0.
RenderOrderReset ==
    /\ phase = "preUpdate" /\ log = <<>> => currentRenderOrderID = 0
    /\ phase \in {"preUpdate", "preDone"} /\ log # <<>> => log[1].order = 0

\* C6 witness: preUpdate has begun on a Stage with children after a frame that
\* left the counter above 0.
RenderOrderReset_witness ==
    /\ phase = "preUpdate"
    /\ lastOp.op = "preUpdate"
    /\ lastOp.prev > 0
    /\ currentRenderOrderID = 0
    /\ Len(children[StageId]) > 0

\* The scenario: A, B, C on the Stage in that order, A moves itself under C in
\* its own preUpdate, B and C stay where they are.
ScenarioABC ==
    /\ start[StageId] = <<"A", "B", "C">>
    /\ start["C"] = <<>>
    /\ \A k \in 1..Len(StageCalls) :
          StageCalls[k].act = IF StageCalls[k].node = "A" THEN Under("C") ELSE Stay

\* C9: in the scenario the calls of one finished preUpdate pass are A, B and C by
\* the Stage's loop, in that order, and then A once more by C's loop.
ReparentUnderSibling ==
    phase = "preDone" /\ ScenarioABC =>
        CallPairs = << <<StageId, "A">>, <<StageId, "B">>, <<StageId, "C">>, <<"C", "A">> >>

\* C9 witness: the scenario has run to the end of the pass.
ReparentUnderSibling_witness ==
    /\ phase = "preDone"
    /\ ScenarioABC
    /\ Len(log) = 4
    /\ log[4].owner = "C"
    /\ log[4].node = "A"

(***************************************************************************)
(* Properties of postUpdate and updateTransform.                           *)
(***************************************************************************)
\* What a logged call is to Stage.postUpdate: one of its own steps, or a call
\* made further down by a child.
TopTag(e) ==
    IF e.fn \in {"camera.update", "camera.updateTarget"} THEN e.fn
    ELSE IF e.fn = "postUpdate" /\ e.owner = "camera" THEN "target.postUpdate"
    ELSE IF e.fn = "postUpdate" /\ e.owner = StageId THEN "child.postUpdate"
    ELSE IF e.fn = "updateTransform" /\ e.node = StageId THEN "Stage.updateTransform"
    ELSE "nested"

\* The steps of the running postUpdate, in order.
TopSteps ==
    LET top == SelectSeq(log, LAMBDA e : TopTag(e) # "nested")
    IN [k \in 1..Len(top) |-> TopTag(top[k])]

\* The steps before the loop over the children.
CameraSteps ==
    IF cameraTarget # NoParent
    THEN <<"camera.update", "target.postUpdate", "Stage.updateTransform",
           "camera.updateTarget">>
    ELSE <<"camera.update">>

\* The postUpdate pass is running or has just returned.
InPostUpdate == lastOp.op \in {"postUpdate", "postUpdate.child", "postUpdate.return"}

PostUpdateOrderNow ==
    InPostUpdate =>
        /\ IsPrefix(CameraSteps, TopSteps)
        /\ Len(TopSteps) = Len(CameraSteps) + i + (IF phase = "postDone" THEN 1 ELSE 0)
        /\ \A k \in 1..i : TopSteps[Len(CameraSteps) + k] = "child.postUpdate"
        /\ phase = "postDone" => TopSteps[Len(TopSteps)] = "Stage.updateTransform"

\* A turn of the loop calls the child at the index and moves the index up by one.
PostUpdateTurnStep ==
    lastOp'.op = "postUpdate.child" =>
        /\ i' = i + 1
        /\ Len(log') > Len(log)
        /\ log'[Len(log) + 1].owner = StageId
        /\ log'[Len(log) + 1].node = children[StageId][i + 1]

\* C11: Stage.postUpdate first calls camera.update(); then, exactly when the
\* camera has a target, the target's postUpdate, a Stage.updateTransform pass
\* and camera.updateTarget() in that order; only then postUpdate of the Stage's
\* children, index 0 first and one index at a time; and its last step is a
\* Stage.updateTransform pass.
PostUpdateOrder == []PostUpdateOrderNow /\ [][PostUpdateTurnStep]_vars

\* C11 witness: a postUpdate with a camera target over at least two children has
\* returned.
PostUpdateOrder_witness ==
    /\ lastOp.op = "postUpdate.return"
    /\ cameraTarget # NoParent
    /\ i >= 2
    /\ TopSteps[4] = "camera.updateTarget"

\* How many Stage.updateTransform passes the running pass has made.
TransformPasses ==
    Cardinality({k \in 1..Len(log) : TopTag(log[k]) = "Stage.updateTransform"})

\* No child's updateTransform comes before a postUpdate of a child of the Stage.
TransformsAfterPostUpdates ==
    \A j, k \in 1..Len(log) :
        log[j].fn = "updateTransform" /\ log[j].node \in Nodes
            /\ log[k].fn = "postUpdate" /\ log[k].owner = StageId
        => k < j

\* C12, as claimed: in every frame Stage.updateTransform runs exactly once, and
\* no child's updateTransform is invoked before every child's postUpdate of the
\* frame has returned, with or without a camera target.
TransformOncePerFrame ==
    /\ phase \in {"preUpdate", "preDone", "update", "updDone"} => TransformPasses = 0
    /\ lastOp.op = "postUpdate.return" =>
          TransformPasses = 1 /\ TransformsAfterPostUpdates

\* The updateTransform calls of the last Stage.updateTransform pass come after
\* every postUpdate call of the pass.
LastTransformAfterPostUpdates ==
    \E m \in 1..Len(log) :
        /\ TopTag(log[m]) = "Stage.updateTransform"
        /\ \A k \in 1..Len(log) :
              /\ k > m => log[k].fn = "updateTransform" /\ log[k].node \in Nodes
              /\ log[k].fn = "postUpdate" => k < m

\* C12, amended: no transform pass runs in preUpdate or update; a postUpdate
\* without a camera target makes exactly one Stage.updateTransform pass and no
\* child's updateTransform precedes a child's postUpdate; a postUpdate with a
\* camera target makes exactly two passes, the first right after the target's
\* postUpdate; and in both cases the last pass comes after every postUpdate
\* call of the frame.
TransformPassesPerFrame ==
    /\ phase \in {"preUpdate", "preDone", "update", "updDone"} => TransformPasses = 0
    /\ lastOp.op = "postUpdate.return" =>
          /\ LastTransformAfterPostUpdates
          /\ cameraTarget = NoParent => TransformPasses = 1 /\ TransformsAfterPostUpdates
          /\ cameraTarget # NoParent =>
                /\ TransformPasses = 2
                /\ TopSteps[2] = "target.postUpdate"
                /\ TopSteps[3] = "Stage.updateTransform"

\* C12 witness: a postUpdate with a camera target over a Stage with children has
\* returned after two transform passes.
TransformPassesPerFrame_witness ==
    /\ lastOp.op = "postUpdate.return"
    /\ cameraTarget # NoParent
    /\ Len(start[StageId]) >= 2
    /\ TransformPasses = 2

\* The postUpdate calls of the pass that the Stage's own loop made.
LoopPostUpdates ==
    LET calls == SelectSeq(log, LAMBDA e : TopTag(e) = "child.postUpdate")
    IN [k \in 1..Len(calls) |-> calls[k].node]

\* C14: whatever the children do to themselves in their own postUpdate, the loop
\* of Stage.postUpdate calls every child that was on the Stage when the loop
\* began, once each, in the order of the list.
PostUpdateVisitsEachOnce ==
    lastOp.op = "postUpdate.return" => LoopPostUpdates = start[StageId]

\* How many postUpdate calls of the pass went to the node, from anywhere.
PostUpdatesOf(n) ==
    Cardinality({k \in 1..Len(log) : log[k].fn = "postUpdate" /\ log[k].node = n})

\* No callback of the pass changed the display list.
NothingMoved == \A k \in 1..Len(log) : log[k].act = Stay

\* C20: in a postUpdate pass in which no child changes the display list, every
\* child of the Stage gets exactly one postUpdate call, the camera's target too.
OnePostUpdatePerChild ==
    lastOp.op = "postUpdate.return" /\ NothingMoved =>
        \A k \in 1..Len(children[StageId]) : PostUpdatesOf(children[StageId][k]) = 1

(***************************************************************************)
(* Properties of the traversals under any change of the display list.      *)
(***************************************************************************)
\* The calls the loop of the running traversal made, one for each turn.
LoopCalls == SelectSeq(log, LAMBDA e : e.owner = StageId /\ e.fn # "updateTransform")

\* How many of the calls of the Stage's own loop went to the node.
LoopCallsOf(n) == Cardinality({k \in 1..Len(LoopCalls) : LoopCalls[k].node = n})

\* Whether p is s with some entries left out.
RECURSIVE IsSubSeq(_, _)
IsSubSeq(p, s) ==
    IF p = <<>> THEN TRUE
    ELSE IF s = <<>> THEN FALSE
    ELSE IF Head(p) = Head(s) THEN IsSubSeq(Tail(p), Tail(s))
    ELSE IsSubSeq(p, Tail(s))

\* C13: whatever a child's preUpdate removes from the Stage's list, itself or a
\* sibling before or after it, the Stage's preUpdate loop calls no child twice,
\* calls the children in the order of the starting list, and has called every
\* child that is still on the Stage when it returns.
PreUpdateNoSkipNoRevisit ==
    lastOp.op = "preUpdate.return" =>
        /\ IsSubSeq(StageVisited, start[StageId])
        /\ \A n \in Nodes : LoopCallsOf(n) <= 1
        /\ \A k \in 1..Len(children[StageId]) : LoopCallsOf(children[StageId][k]) = 1

\* The turns the running loop still has to make, by its index and the list.
TurnsLeft ==
    CASE phase \in {"preUpdate", "postUpdate"} ->
            IF i < Len(children[StageId]) THEN Len(children[StageId]) - i ELSE 0
      [] phase = "update" -> i
      [] OTHER -> 0

\* C15: no traversal is left by an exception, and the turns a loop has made
\* and those it still has to make never add up to more than the children it
\* began with: so preUpdate, update and postUpdate each return after at most
\* that many turns.
TraversalsReturn ==
    /\ phase # "thrown"
    /\ phase \in {"preUpdate", "update", "postUpdate"} =>
          Len(LoopCalls) + TurnsLeft <= Len(start[StageId])

(***************************************************************************)
(* Properties of the visibility handling.                                  *)
(***************************************************************************)
FocusLossTypes == {"blur", "pagehide"}

FocusGainTypes == {"click", "focus", "pageshow"}

\* Some hidden flag of the document is set.
SomeFlagSet == \E f \in FlagNames : documentFlags[f] = "true"

NoDanglingListeners ==
    life = "destroyed" =>
        /\ docListeners = {}
        /\ \A h \in WindowHandlers : windowOn[h] = "null"
        /\ ~clickListener
        /\ cocoonListeners = {}

\* C10: with disableVisibilityChange off, a visibility event of a visible page
\* and the resume event of CocoonJS each make visibilityChange call gameResumed;
\* with it on, they make no call.
ResumeOnActivation ==
    /\ lastEvent.handled
    /\ \/ lastEvent.via = "document" /\ ~SomeFlagSet
       \/ lastEvent.via = "cocoon" /\ lastEvent.type = "resume"
    => hostCalls = IF disableVisibilityChange THEN <<>> ELSE <<"gameResumed">>

\* The visibility flags in the order checkVisibility tries them.
HiddenOrder == <<"hidden", "webkitHidden", "mozHidden", "msHidden">>

\* The event that belongs to a flag.
EventNameFor(f) ==
    CASE f = "hidden" -> "visibilitychange"
      [] f = "webkitHidden" -> "webkitvisibilitychange"
      [] f = "mozHidden" -> "mozvisibilitychange"
      [] f = "msHidden" -> "msvisibilitychange"

\* The flags the document defines.
Supported == {k \in 1..Len(HiddenOrder) : documentFlags[HiddenOrder[k]] # "undefined"}

ProbeAgrees ==
    /\ lastEvent.handled
    /\ probe.set
    /\ lastEvent.type = probe.type
    /\ documentFlags = probe.flags
    /\ disableVisibilityChange = probe.disable
    => hostCalls = probe.calls

\* A step that makes a visibilityChange call leaves the fields of the Stage as
\* they were.
ClassifierStep ==
    lastEvent'.handled /\ lastEvent' # lastEvent =>
        UNCHANGED <<disableVisibilityChange, hiddenVar, life, currentRenderOrderID,
                    worldAlpha, children, bgColor, docListeners, windowOn, clickListener>>

\* C18: two visibilityChange calls with the same event type, the same hidden
\* flags and the same disableVisibilityChange make the same host call, whatever
\* came between them and whether the host was paused or not, and the call
\* changes no field of the Stage.
ClassifierHasNoMemory == []ProbeAgrees /\ [][ClassifierStep]_vars

\* C18 witness: a blur on a hidden page was classified while the host ran and,
\* after a visibility event had paused the host, again with the same inputs.
ClassifierHasNoMemory_witness ==
    /\ lastEvent.handled
    /\ probe.set
    /\ probe.type = "blur"
    /\ lastEvent.type = probe.type
    /\ documentFlags = probe.flags
    /\ SomeFlagSet
    /\ disableVisibilityChange = probe.disable
    /\ ~probe.disable
    /\ ~probe.paused
    /\ paused
    /\ hostCalls = <<"focusLoss">>

\* C19: a click that reaches _onClick makes the focusGain call exactly when
\* document.hasFocus is defined and reports no focus, and makes no call at all
\* otherwise.
ClickGating ==
    lastEvent.via = "click" =>
        IF hasFocus = "false" THEN hostCalls = <<"focusGain">> ELSE hostCalls = <<>>

\* C19 witness: a click on a booted Stage whose document has no hasFocus.
ClickGating_witness ==
    /\ lastEvent.via = "click"
    /\ life = "booted"
    /\ hasFocus = "undefined"
    /\ hostCalls = <<>>

(***************************************************************************)
(* Properties of the background color.                                     *)
(***************************************************************************)
\* C5: while the game is transparent no step changes any field of the stored
\* color, and the backgroundColor getter keeps its value.
TransparentWriteProtected ==
    [][transparent => bgColor' = bgColor /\ backgroundColor' = backgroundColor]_vars

\* C5 witness: a transparent game whose background color has been assigned red.
TransparentWriteProtected_witness ==
    /\ transparent
    /\ lastColor.op = "backgroundColor="
    /\ lastColor.color = Num(16711680)
    /\ bgColor = newColor(TRUE)

\* C8: on an opaque game, after setBackgroundColor(c) for a 0xRRGGBB integer c
\* the getter returns c, the channels r, g, b are the bytes of c over 255 (so
\* 0xFF0000 gives 1, 0, 0) and alpha is 1.
BackgroundColorChannels ==
    /\ ~transparent
    /\ lastColor.op = "setBackgroundColor"
    /\ IsRGBInteger(lastColor.color)
    => LET c == lastColor.color.n
       IN /\ backgroundColor = c
          /\ FracIs(bgColor.r, (c \div 65536) % 256, 255)
          /\ FracIs(bgColor.g, (c \div 256) % 256, 255)
          /\ FracIs(bgColor.b, c % 256, 255)
          /\ FracIs(bgColor.a, 1, 1)
          /\ c = 16711680 =>
                FracIs(bgColor.r, 1, 1) /\ FracIs(bgColor.g, 0, 1) /\ FracIs(bgColor.b, 0, 1)

\* C8 witness: setBackgroundColor(0x123456) on an opaque game whose color was
\* something else before.
BackgroundColorChannels_witness ==
    /\ ~transparent
    /\ lastColor = [op |-> "setBackgroundColor", color |-> Num(1193046)]
    /\ backgroundColor = 1193046
    /\ FracIs(bgColor.g, 52, 255)

\* C17: the stored alpha is 0 on a transparent game and 1 on an opaque one, in
\* every state that setBackgroundColor calls, backgroundColor assignments and
\* parseConfig lead to from construction.
BackgroundAlpha == FracIs(bgColor.a, IF transparent THEN 0 ELSE 1, 1)

\* C17 witness: an opaque game has been assigned a color value that carries an
\* alpha byte.
BackgroundAlpha_witness ==
    /\ ~transparent
    /\ lastColor = [op |-> "backgroundColor=", color |-> Num(33488896)]
    /\ backgroundColor = 16711680

====
